---- MODULE Spec2Model ----
(***************************************************************************)
(* Model of the Social Media AI Agent: the utility functions of            *)
(* src/utils.py, the enumerations of src/config.py and the session         *)
(* handlers of src/app.py.                                                  *)
(*                                                                         *)
(* A Python str is a sequence of characters; a character is a one-element  *)
(* string, and a code point outside ASCII is written by its number         *)
(* ("U20AC" is the euro sign, "U1F4DD" the memo emoji).  Strings the code  *)
(* only compares whole (tone names, fixed messages) are atomic strings.    *)
(***************************************************************************)
EXTENDS Integers, Sequences, FiniteSets, TLC

VARIABLES
    generated_content,  \* st.session_state.generated_content: list of records
    current_content,    \* st.session_state.current_content: None or a record
    show_history,       \* st.session_state.show_history
    now_calls,          \* number of datetime.now() readings taken so far
    last,               \* outcome of the last session handler that ran
    call,               \* the last utility call made: function and arguments
    ret                 \* the value that call returned

vars == <<generated_content, current_content, show_history, now_calls, last, call, ret>>
sessionVars == <<generated_content, current_content, show_history, now_calls, last>>
callVars == <<call, ret>>

\* Python's None
None == [none |-> TRUE]

----------------------------------------------------------------------------
(* Characters and the str methods the code uses *)

UpperCase == <<"A","B","C","D","E","F","G","H","I","J","K","L","M",
               "N","O","P","Q","R","S","T","U","V","W","X","Y","Z">>
LowerCase == <<"a","b","c","d","e","f","g","h","i","j","k","l","m",
               "n","o","p","q","r","s","t","u","v","w","x","y","z">>
Digits == {"0","1","2","3","4","5","6","7","8","9"}

\* str.isspace on the characters of the model
IsSpace(c) == c \in {" ", "\t", "\n", "\r"}

\* the class [a-zA-Z0-9_]
IsAsciiWordChar(c) ==
    \/ \E i \in 1..26 : c = UpperCase[i] \/ c = LowerCase[i]
    \/ c \in Digits
    \/ c = "_"

\* letters and digits outside ASCII ("U00E9" is e with acute accent, "U0663"
\* the Arabic-Indic digit three)
UnicodeWordChars == {"U00E9", "U0663"}

\* the class \w of re on a str: letters and digits of any script, underscore
IsWordChar(c) == IsAsciiWordChar(c) \/ c \in UnicodeWordChars

\* str.lower, character by character
lower_char(c) ==
    IF \E i \in 1..26 : UpperCase[i] = c
    THEN LowerCase[CHOOSE i \in 1..26 : UpperCase[i] = c]
    ELSE c

lower(s) == [i \in 1..Len(s) |-> lower_char(s[i])]

\* str.strip(): drop the whitespace at both ends
strip(s) ==
    LET solid == {i \in 1..Len(s) : ~IsSpace(s[i])}
    IN  IF solid = {} THEN <<>>
        ELSE LET first == CHOOSE i \in solid : \A j \in 1..(i-1) : IsSpace(s[j])
                 final == CHOOSE i \in solid : \A j \in (i+1)..Len(s) : IsSpace(s[j])
             IN  SubSeq(s, first, final)

\* str.startswith / str.endswith / the "in" operator on strings
startswith(s, p) == Len(p) <= Len(s) /\ SubSeq(s, 1, Len(p)) = p
endswith(s, p) == Len(p) <= Len(s) /\ SubSeq(s, Len(s) - Len(p) + 1, Len(s)) = p
contains(s, p) == \E i \in 0..(Len(s) - Len(p)) : SubSeq(s, i + 1, i + Len(p)) = p

\* str.split(sep) for a one-character separator
RECURSIVE split(_, _)
split(s, sep) ==
    IF \A i \in 1..Len(s) : s[i] # sep THEN <<s>>
    ELSE LET i == CHOOSE k \in 1..Len(s) : s[k] = sep /\ \A j \in 1..(k-1) : s[j] # sep
         IN  <<SubSeq(s, 1, i - 1)>> \o split(SubSeq(s, i + 1, Len(s)), sep)

\* sep.join(parts)
RECURSIVE join(_, _)
join(sep, parts) ==
    IF parts = <<>> THEN <<>>
    ELSE IF Len(parts) = 1 THEN parts[1]
    ELSE parts[1] \o sep \o join(sep, Tail(parts))

\* len(s.split()): the number of maximal runs of non-whitespace
split_count(s) ==
    Cardinality({i \in 1..Len(s) : ~IsSpace(s[i]) /\ (i = 1 \/ IsSpace(s[i-1]))})

\* the concatenation of a sequence of strings
RECURSIVE concat(_)
concat(pieces) == IF pieces = <<>> THEN <<>> ELSE Head(pieces) \o concat(Tail(pieces))

\* the string of n characters c
Repeat(c, n) == [i \in 1..n |-> c]

----------------------------------------------------------------------------
(* src/config.py *)

\* the platform names, as the strings they are
Instagram == <<"I","n","s","t","a","g","r","a","m">>
TwitterX == <<"T","w","i","t","t","e","r","/","X">>
LinkedIn == <<"L","i","n","k","e","d","I","n">>
Facebook == <<"F","a","c","e","b","o","o","k">>
TikTok == <<"T","i","k","T","o","k">>
YouTube == <<"Y","o","u","T","u","b","e">>
General == <<"G","e","n","e","r","a","l">>

SUPPORTED_PLATFORMS ==
    <<Instagram, TwitterX, LinkedIn, Facebook, TikTok, YouTube, General>>

TONE_OPTIONS ==
    <<"Professional", "Casual", "Inspiring", "Educational", "Humorous", "Urgent", "Friendly">>

Range(f) == {f[i] : i \in DOMAIN f}

----------------------------------------------------------------------------
(* validate_input, src/utils.py:12 *)

MinTopicLen == 3
MaxTopicLen == 500

\* a validator that admits a platform the limit table does not have
valid_platforms_with_snapchat ==
    <<Instagram, TwitterX, LinkedIn, Facebook, TikTok, YouTube, General,
      <<"S","n","a","p","c","h","a","t">>>>

valid_platforms ==
    <<Instagram, TwitterX, LinkedIn, Facebook, TikTok, YouTube, General>>
valid_tones ==
    <<"Professional", "Casual", "Inspiring", "Educational", "Humorous", "Urgent", "Friendly">>

\* plausible slips of validate_input
validate_input_inclusive_max(topic, platform, tone) ==
    IF topic = <<>> \/ strip(topic) = <<>> THEN <<FALSE, "Topic cannot be empty">>
    ELSE IF Len(strip(topic)) < MinTopicLen
    THEN <<FALSE, "Topic must be at least 3 characters long">>
    ELSE IF Len(strip(topic)) >= MaxTopicLen
    THEN <<FALSE, "Topic must be less than 500 characters">>
    ELSE IF platform \notin Range(valid_platforms)
    THEN <<FALSE, "Invalid platform selected">>
    ELSE IF tone \notin Range(valid_tones)
    THEN <<FALSE, "Invalid tone selected">>
    ELSE <<TRUE, "">>

validate_input_tone_first(topic, platform, tone) ==
    IF topic = <<>> \/ strip(topic) = <<>> THEN <<FALSE, "Topic cannot be empty">>
    ELSE IF Len(strip(topic)) < MinTopicLen
    THEN <<FALSE, "Topic must be at least 3 characters long">>
    ELSE IF Len(strip(topic)) > MaxTopicLen
    THEN <<FALSE, "Topic must be less than 500 characters">>
    ELSE IF tone \notin Range(valid_tones)
    THEN <<FALSE, "Invalid tone selected">>
    ELSE IF platform \notin Range(valid_platforms)
    THEN <<FALSE, "Invalid platform selected">>
    ELSE <<TRUE, "">>

validate_input(topic, platform, tone) ==
    IF topic = <<>> \/ strip(topic) = <<>> THEN <<FALSE, "Topic cannot be empty">>
    ELSE IF Len(strip(topic)) < MinTopicLen
    THEN <<FALSE, "Topic must be at least 3 characters long">>
    ELSE IF Len(strip(topic)) > MaxTopicLen
    THEN <<FALSE, "Topic must be less than 500 characters">>
    ELSE IF platform \notin Range(valid_platforms)
    THEN <<FALSE, "Invalid platform selected">>
    ELSE IF tone \notin Range(valid_tones)
    THEN <<FALSE, "Invalid tone selected">>
    ELSE <<TRUE, "">>

----------------------------------------------------------------------------
(* clean_text, src/utils.py:43 *)

\* the punctuation the second pattern of clean_text lets through
AllowedPunctuation ==
    {"-", ".", ",", "!", "?", "@", "#", "$", "%", "&", "*", "(", ")", "+", "=",
     "[", "]", "{", "}", ":", ";", "U0022", "'", "<", ">", "/", "U005C", "|", "U0060", "~"}

\* a character the negated class of the second pattern does not match
\* ("U0022" is the double quote, "U005C" the backslash, "U0060" the backtick)
IsAllowedChar(c) == IsWordChar(c) \/ IsSpace(c) \/ c \in AllowedPunctuation

\* re.sub of the pattern \s+ by one space: every maximal run of whitespace becomes one space
RECURSIVE sub_whitespace(_)
sub_whitespace(s) ==
    IF s = <<>> THEN <<>>
    ELSE IF IsSpace(Head(s))
    THEN IF Len(s) > 1 /\ IsSpace(s[2])
         THEN sub_whitespace(Tail(s))
         ELSE <<" ">> \o sub_whitespace(Tail(s))
    ELSE <<Head(s)>> \o sub_whitespace(Tail(s))

\* re.sub of the negated class by the empty string: delete every character outside the allow-list
sub_disallowed(s) == SelectSeq(s, IsAllowedChar)

clean_text(text) ==
    IF text = <<>> THEN <<>>
    ELSE sub_disallowed(sub_whitespace(strip(text)))

----------------------------------------------------------------------------
(* format_hashtags, src/utils.py:64 *)

\* the length of the longest prefix of s made of word characters
RECURSIVE word_run(_)
word_run(s) ==
    IF s # <<>> /\ IsWordChar(Head(s)) THEN 1 + word_run(Tail(s)) ELSE 0

\* re.findall of a "#" followed by one or more word characters: the
\* matches from left to right, each as long as possible
RECURSIVE findall_hashtag(_)
findall_hashtag(s) ==
    IF s = <<>> THEN <<>>
    ELSE IF Head(s) = "#" /\ word_run(Tail(s)) > 0
    THEN LET n == 1 + word_run(Tail(s))
         IN  <<SubSeq(s, 1, n)>> \o findall_hashtag(SubSeq(s, n + 1, Len(s)))
    ELSE findall_hashtag(Tail(s))

\* tag.replace('#', '') followed by re.sub of [^a-zA-Z0-9_] by ''
clean_tag(tag) ==
    SelectSeq(SelectSeq(tag, LAMBDA c : c # "#"), IsAsciiWordChar)

\* a cleaned tag of one character is kept as well
keeps_tag_short(clean) == clean # <<>>

\* the condition of src/utils.py:86
keeps_tag(clean) == clean # <<>> /\ Len(clean) > 1

\* the list formatted, src/utils.py:82-87
RECURSIVE formatted_tags(_)
formatted_tags(found_hashtags) ==
    IF found_hashtags = <<>> THEN <<>>
    ELSE LET clean == clean_tag(Head(found_hashtags))
         IN  (IF keeps_tag(clean) THEN << <<"#">> \o clean >> ELSE <<>>)
             \o formatted_tags(Tail(found_hashtags))

\* list(set(l)): the lists that hold each element of l once; the order is
\* that of the set's hash table and is not fixed by the code
list_set(l) ==
    LET S == {l[i] : i \in 1..Len(l)}
    IN  {f \in [1..Cardinality(S) -> S] : \A x \in S : \E i \in DOMAIN f : f[i] = x}

\* format_hashtags: the lists a call can return
format_hashtags(hashtags_text) ==
    IF hashtags_text = <<>> THEN {<<>>}
    ELSE list_set(formatted_tags(findall_hashtag(hashtags_text)))

----------------------------------------------------------------------------
(* get_platform_limits and validate_content_length, src/utils.py:297 *)

\* the names of the limits
post == <<"p","o","s","t">>
bio == <<"b","i","o">>
hashtags == <<"h","a","s","h","t","a","g","s">>
caption == <<"c","a","p","t","i","o","n">>
headline == <<"h","e","a","d","l","i","n","e">>
description == <<"d","e","s","c","r","i","p","t","i","o","n">>
title == <<"t","i","t","l","e">>

limits ==
    (Instagram :> (caption :> 2200 @@ bio :> 150 @@ hashtags :> 30)) @@
    (TwitterX  :> (post :> 280 @@ bio :> 160 @@ hashtags :> 2)) @@
    (LinkedIn  :> (post :> 3000 @@ headline :> 220 @@ hashtags :> 5)) @@
    (Facebook  :> (post :> 63206 @@ bio :> 101 @@ hashtags :> 30)) @@
    (TikTok    :> (caption :> 2200 @@ bio :> 80 @@ hashtags :> 5)) @@
    (YouTube   :> (description :> 5000 @@ title :> 100 @@ hashtags :> 15)) @@
    (General   :> (post :> 2000 @@ bio :> 150 @@ hashtags :> 10))

\* a slip of get_platform_limits: an unknown platform gets the first entry
get_platform_limits_first_entry(platform) ==
    IF platform \in DOMAIN limits THEN limits[platform] ELSE limits[Instagram]

\* limits.get(platform, limits["General"])
get_platform_limits(platform) ==
    IF platform \in DOMAIN limits THEN limits[platform] ELSE limits[General]

DefaultLimit == 2000

\* str(n) for n >= 0: the decimal digits
DigitChars == <<"0","1","2","3","4","5","6","7","8","9">>
RECURSIVE str_int(_)
str_int(n) ==
    IF n < 10 THEN <<DigitChars[n + 1]>>
    ELSE str_int(n \div 10) \o <<DigitChars[(n % 10) + 1]>>

\* a slip of validate_content_length: a content of exactly the limit fails
validate_content_length_strict(content, platform, content_type) ==
    LET platform_limits == get_platform_limits(platform)
        limit == IF content_type \in DOMAIN platform_limits
                 THEN platform_limits[content_type] ELSE DefaultLimit
        content_length == Len(content)
    IN  IF content_length >= limit
        THEN <<FALSE, <<"C","o","n","t","e","n","t"," ","e","x","c","e","e","d","s"," ">> \o platform \o <<" ">> \o content_type
                      \o <<" ","l","i","m","i","t"," ","o","f"," ">> \o str_int(limit) \o <<" ","c","h","a","r","a","c","t","e","r","s"," ","(">>
                      \o str_int(content_length) \o <<"/">> \o str_int(limit) \o <<")">>>>
        ELSE <<TRUE, <<"C","o","n","t","e","n","t"," ","l","e","n","g","t","h"," ","O","K"," ","(">> \o str_int(content_length) \o <<"/">>
                     \o str_int(limit) \o <<" ","c","h","a","r","a","c","t","e","r","s",")">>>>

validate_content_length(content, platform, content_type) ==
    LET platform_limits == get_platform_limits(platform)
        limit == IF content_type \in DOMAIN platform_limits
                 THEN platform_limits[content_type] ELSE DefaultLimit
        content_length == Len(content)
    IN  IF content_length > limit
        THEN <<FALSE, <<"C","o","n","t","e","n","t"," ","e","x","c","e","e","d","s"," ">> \o platform \o <<" ">> \o content_type
                      \o <<" ","l","i","m","i","t"," ","o","f"," ">> \o str_int(limit) \o <<" ","c","h","a","r","a","c","t","e","r","s"," ","(">>
                      \o str_int(content_length) \o <<"/">> \o str_int(limit) \o <<")">>>>
        ELSE <<TRUE, <<"C","o","n","t","e","n","t"," ","l","e","n","g","t","h"," ","O","K"," ","(">> \o str_int(content_length) \o <<"/">>
                     \o str_int(limit) \o <<" ","c","h","a","r","a","c","t","e","r","s",")">>>>

----------------------------------------------------------------------------
(* create_download_filename, src/utils.py:273 *)

\* re.sub of [^\w\s-] by '': keep word characters, whitespace and hyphens
sub_unsafe(topic) ==
    SelectSeq(topic, LAMBDA c : IsWordChar(c) \/ IsSpace(c) \/ c = "-")

\* re.sub of [-\s]+ by '-': every maximal run of hyphens and whitespace
\* becomes one hyphen
RECURSIVE sub_separators(_)
sub_separators(s) ==
    IF s = <<>> THEN <<>>
    ELSE IF Head(s) = "-" \/ IsSpace(Head(s))
    THEN IF Len(s) > 1 /\ (s[2] = "-" \/ IsSpace(s[2]))
         THEN sub_separators(Tail(s))
         ELSE <<"-">> \o sub_separators(Tail(s))
    ELSE <<Head(s)>> \o sub_separators(Tail(s))

SlugLimit == 30

\* the slice [:n]
prefix(s, n) == SubSeq(s, 1, IF Len(s) < n THEN Len(s) ELSE n)

safe_topic(topic) == prefix(sub_separators(strip(sub_unsafe(topic))), SlugLimit)

\* str.replace('/', '_')
replace_slash(s) == [i \in 1..Len(s) |-> IF s[i] = "/" THEN "_" ELSE s[i]]

\* a platform name that is lower-cased and keeps its slashes
safe_platform_lower_only(platform) == lower(platform)

\* src/utils.py:290
safe_platform(platform) == lower(replace_slash(platform))

\* a decimal number padded with zeros to a width
zero_padded(n, width) ==
    LET digits == str_int(n)
    IN  [i \in 1..(width - Len(digits)) |-> "0"] \o digits

\* strftime("%Y%m%d_%H%M%S") of a reading of the clock
strftime(dt) ==
    zero_padded(dt.year, 4) \o zero_padded(dt.month, 2) \o zero_padded(dt.day, 2)
    \o <<"_">>
    \o zero_padded(dt.hour, 2) \o zero_padded(dt.minute, 2) \o zero_padded(dt.second, 2)

\* create_download_filename; now is the reading of the clock it takes
create_download_filename(topic, platform, file_type, now) ==
    <<"s","o","c","i","a","l","_","m","e","d","i","a","_">> \o safe_topic(topic) \o <<"_">> \o safe_platform(platform)
    \o <<"_">> \o strftime(now) \o <<".">> \o file_type

----------------------------------------------------------------------------
(* generate_content_id, src/utils.py:108 *)

\* the printable ASCII characters in the order of their codes, from 32
Ascii ==
    <<" ","!","U0022","#","$","%","&","'","(",")","*","+",",","-",".","/",
      "0","1","2","3","4","5","6","7","8","9",":",";","<","=",">","?",
      "@","A","B","C","D","E","F","G","H","I","J","K","L","M","N","O",
      "P","Q","R","S","T","U","V","W","X","Y","Z","[","U005C","]","^","_",
      "U0060","a","b","c","d","e","f","g","h","i","j","k","l","m","n","o",
      "p","q","r","s","t","u","v","w","x","y","z","{","|","}","~">>

\* the UTF-8 bytes of the characters the model names by code point
Utf8Named ==
    [U00E9 |-> <<195,169>>, U0663 |-> <<217,163>>, U20AC |-> <<226,130,172>>,
     UFE0F |-> <<239,184,143>>,
     U1F3A8 |-> <<240,159,142,168>>, U1F3F7 |-> <<240,159,143,183>>,
     U1F4C8 |-> <<240,159,147,136>>, U1F4CA |-> <<240,159,147,138>>,
     U1F4DD |-> <<240,159,147,157>>, U1F525 |-> <<240,159,148,165>>]

\* str.encode() of one character
encode_char(c) ==
    IF c = "\t" THEN <<9>>
    ELSE IF c = "\n" THEN <<10>>
    ELSE IF c = "\r" THEN <<13>>
    ELSE IF \E i \in 1..Len(Ascii) : Ascii[i] = c
    THEN <<31 + CHOOSE i \in 1..Len(Ascii) : Ascii[i] = c>>
    ELSE Utf8Named[c]

\* str.encode(): the UTF-8 bytes of a string, half by half
RECURSIVE encode(_)
encode(s) ==
    IF s = <<>> THEN <<>>
    ELSE IF Len(s) = 1 THEN encode_char(s[1])
    ELSE LET half == Len(s) \div 2
         IN  encode(SubSeq(s, 1, half)) \o encode(SubSeq(s, half + 1, Len(s)))

\* hashlib.md5 (RFC 1321).  A 32-bit word is the pair of its high and its
\* low 16 bits.
Half == 65536

\* floor(2^32 * abs(sin(i))) for i = 1..64
md5_K ==
    <<<<55146,42104>>,<<59591,46934>>,<<9248,28891>>,<<49597,52974>>,
      <<62844,4015>>,<<18311,50730>>,<<43056,17939>>,<<64838,38145>>,
      <<27008,39128>>,<<35652,63407>>,<<65535,23473>>,<<35164,55230>>,
      <<27536,4386>>,<<64920,29075>>,<<42617,17294>>,<<18868,2081>>,
      <<63006,9570>>,<<49216,45888>>,<<9822,23121>>,<<59830,51114>>,
      <<54831,4189>>,<<580,5203>>,<<55457,59009>>,<<59347,64456>>,
      <<8673,52710>>,<<49975,2006>>,<<62677,3463>>,<<17754,5357>>,
      <<43491,59653>>,<<64751,41976>>,<<26479,729>>,<<36138,19594>>,
      <<65530,14658>>,<<34673,63105>>,<<28061,24866>>,<<64997,14348>>,
      <<42174,59972>>,<<19422,53161>>,<<63163,19296>>,<<48831,48240>>,
      <<10395,32454>>,<<60065,10234>>,<<54511,12421>>,<<1160,7429>>,
      <<55764,53305>>,<<59099,39397>>,<<8098,31992>>,<<50348,22117>>,
      <<62505,8772>>,<<17194,65431>>,<<43924,9127>>,<<64659,41017>>,
      <<25947,22979>>,<<36620,52370>>,<<65519,62589>>,<<34180,24017>>,
      <<28584,32335>>,<<65068,59104>>,<<41729,17172>>,<<19976,4513>>,
      <<63315,32386>>,<<48442,62005>>,<<10967,53947>>,<<60294,54161>>>>

\* the rotation of each of the 64 steps
md5_S ==
    <<7,12,17,22,7,12,17,22,7,12,17,22,7,12,17,22,5,9,14,20,5,9,14,20,5,9,14,20,5,9,14,20,4,11,16,23,4,11,16,23,4,11,16,23,4,11,16,23,6,10,15,21,6,10,15,21,6,10,15,21,6,10,15,21>>

add32(a, b) ==
    LET lo == a[2] + b[2]
        hi == a[1] + b[1] + (lo \div Half)
    IN  <<hi % Half, lo % Half>>

RECURSIVE pow2(_)
pow2(n) == IF n = 0 THEN 1 ELSE 2 * pow2(n - 1)

\* rotate a word left by s bits, 0 <= s < 32
RECURSIVE rotl32(_, _)
rotl32(w, s) ==
    IF s >= 16 THEN rotl32(<<w[2], w[1]>>, s - 16)
    ELSE IF s = 0 THEN w
    ELSE LET keep == pow2(16 - s)
             up == pow2(s)
         IN  <<(w[1] % keep) * up + (w[2] \div keep),
               (w[2] % keep) * up + (w[1] \div keep)>>

\* the four auxiliary functions of MD5 on one bit: F picks y or z by x, G
\* picks x or y by z, H is the parity, I is y xor (x or not z)
md5_bit(round, x, y, z) ==
    IF round = 1 THEN (IF x = 1 THEN y ELSE z)
    ELSE IF round = 2 THEN (IF z = 1 THEN x ELSE y)
    ELSE IF round = 3 THEN (x + y + z) % 2
    ELSE (y + (IF x = 1 \/ z = 0 THEN 1 ELSE 0)) % 2

\* the auxiliary function on n bits
RECURSIVE md5_bits(_, _, _, _, _)
md5_bits(round, x, y, z, n) ==
    IF n = 0 THEN 0
    ELSE md5_bit(round, x % 2, y % 2, z % 2)
         + 2 * md5_bits(round, x \div 2, y \div 2, z \div 2, n - 1)

md5_aux(round, x, y, z) ==
    <<md5_bits(round, x[1], y[1], z[1], 16), md5_bits(round, x[2], y[2], z[2], 16)>>

\* the message word used by step i (from 0)
md5_g(i) ==
    IF i < 16 THEN i
    ELSE IF i < 32 THEN (5 * i + 1) % 16
    ELSE IF i < 48 THEN (3 * i + 5) % 16
    ELSE (7 * i) % 16

\* the 16 little-endian words of a block of 64 bytes
md5_words(block) ==
    [j \in 1..16 |-> <<block[4*j - 1] + 256 * block[4*j],
                        block[4*j - 3] + 256 * block[4*j - 2]>>]

\* step i (from 0) on the state <<a, b, c, d>>
md5_step(i, st, M) ==
    LET f == md5_aux((i \div 16) + 1, st[2], st[3], st[4])
        sum == add32(add32(add32(f, st[1]), md5_K[i + 1]), M[md5_g(i) + 1])
        b == add32(st[2], rotl32(sum, md5_S[i + 1]))
    IN  <<st[4], b, st[2], st[3]>>

\* the n steps from step i, n a power of two: the first half, then the
\* second half on its result
RECURSIVE md5_steps(_, _, _, _)
md5_steps(i, n, st, M) ==
    IF Len(st) # 4 THEN st
    ELSE IF n = 1 THEN md5_step(i, st, M)
    ELSE md5_steps(i + n \div 2, n \div 2, md5_steps(i, n \div 2, st, M), M)

\* the padding: a byte 128, zeros up to 56 modulo 64, the bit length in 8
\* little-endian bytes
md5_pad(bytes) ==
    LET n == Len(bytes)
        zeros == (119 - (n % 64)) % 64
        bits == 8 * n
    IN  bytes \o <<128>> \o [i \in 1..zeros |-> 0]
        \o <<bits % 256, (bits \div 256) % 256, (bits \div 65536) % 256,
              bits \div 16777216, 0, 0, 0, 0>>

RECURSIVE md5_blocks(_, _)
md5_blocks(padded, h) ==
    IF padded = <<>> THEN h
    ELSE LET st == md5_steps(0, 64, h, md5_words(SubSeq(padded, 1, 64)))
         IN  md5_blocks(SubSeq(padded, 65, Len(padded)),
                        <<add32(h[1], st[1]), add32(h[2], st[2]),
                          add32(h[3], st[3]), add32(h[4], st[4])>>)

HexDigits == <<"0","1","2","3","4","5","6","7","8","9","a","b","c","d","e","f">>

hex_byte(b) == <<HexDigits[(b \div 16) + 1], HexDigits[(b % 16) + 1]>>

\* the 8 hex digits of a word, lowest byte first
hex_word(w) ==
    hex_byte(w[2] % 256) \o hex_byte(w[2] \div 256)
    \o hex_byte(w[1] % 256) \o hex_byte(w[1] \div 256)

\* hashlib.md5(bytes).hexdigest()
md5_hexdigest(bytes) ==
    LET h == md5_blocks(md5_pad(bytes),
                        <<<<26437, 8961>>, <<61389, 43913>>, <<39098, 56574>>, <<4146, 21622>>>>)
    IN  hex_word(h[1]) \o hex_word(h[2]) \o hex_word(h[3]) \o hex_word(h[4])

\* datetime.isoformat(): the fraction is left out when the microsecond is 0
isoformat(dt) ==
    zero_padded(dt.year, 4) \o <<"-">> \o zero_padded(dt.month, 2) \o <<"-">>
    \o zero_padded(dt.day, 2) \o <<"T">> \o zero_padded(dt.hour, 2) \o <<":">>
    \o zero_padded(dt.minute, 2) \o <<":">> \o zero_padded(dt.second, 2)
    \o (IF dt.microsecond = 0 THEN <<>> ELSE <<".">> \o zero_padded(dt.microsecond, 6))

IdLength == 12

\* an id computed from the clock whatever timestamp is passed
generate_content_id_clock_only(topic, platform, timestamp, now) ==
    prefix(md5_hexdigest(encode(topic \o <<"_">> \o platform \o <<"_">> \o isoformat(now))),
           IdLength)

\* generate_content_id; now is the reading of the clock taken when no
\* timestamp is passed
generate_content_id(topic, platform, timestamp, now) ==
    LET used == IF timestamp = None THEN now ELSE timestamp
        content_string == topic \o <<"_">> \o platform \o <<"_">> \o isoformat(used)
    IN  prefix(md5_hexdigest(encode(content_string)), IdLength)

----------------------------------------------------------------------------
(* export_content_json, src/utils.py:142 *)

\* Python values: a dict is the sequence of its <<key, value>> pairs in
\* insertion order, keys being str; an object is a value json has no
\* encoding for (a response object of the agent, a datetime, a set)
Str(chars) == [t |-> "str", v |-> chars]
Bool(b) == [t |-> "bool", v |-> b]
Dict(pairs) == [t |-> "dict", v |-> pairs]
NoneValue == [t |-> "none", v |-> 0]
Object == [t |-> "object", v |-> 0]

\* whether json.dumps encodes the value; otherwise it raises TypeError
RECURSIVE json_serializable(_)
json_serializable(value) ==
    IF value.t = "dict"
    THEN \A i \in 1..Len(value.v) : json_serializable(value.v[i][2])
    ELSE value.t # "object"

\* the escapes of json's string encoder with ensure_ascii=False: quote,
\* backslash and control characters; other characters stay as they are
json_escape_char(c) ==
    IF c = "U0022" THEN <<"U005C", "U0022">>
    ELSE IF c = "U005C" THEN <<"U005C", "U005C">>
    ELSE IF c = "\n" THEN <<"U005C", "n">>
    ELSE IF c = "\r" THEN <<"U005C", "r">>
    ELSE IF c = "\t" THEN <<"U005C", "t">>
    ELSE <<c>>

json_string(chars) ==
    <<"U0022">> \o concat([i \in 1..Len(chars) |-> json_escape_char(chars[i])]) \o <<"U0022">>

JsonIndent == 2

\* json.dumps(value, indent=2, ensure_ascii=False) of a serializable value
\* that stands at a nesting depth
RECURSIVE json_dumps(_, _)
json_dumps(value, depth) ==
    IF value.t = "str" THEN json_string(value.v)
    ELSE IF value.t = "bool" THEN (IF value.v THEN <<"t","r","u","e">> ELSE <<"f","a","l","s","e">>)
    ELSE IF value.t = "none" THEN <<"n","u","l","l">>
    ELSE IF value.v = <<>> THEN <<"{","}">>
    ELSE LET inner == Repeat(" ", JsonIndent * (depth + 1))
             items == [i \in 1..Len(value.v) |->
                          inner \o json_string(value.v[i][1]) \o <<":"," ">>
                          \o json_dumps(value.v[i][2], depth + 1)]
         IN  <<"{", "\n">> \o join(<<",", "\n">>, items) \o <<"\n">>
             \o Repeat(" ", JsonIndent * depth) \o <<"}">>

\* export_content_json without its try/except
export_content_json_unguarded(content_data) ==
    IF json_serializable(content_data)
    THEN [result |-> json_dumps(content_data, 0), raised |-> FALSE, st_error |-> FALSE]
    ELSE [result |-> <<>>, raised |-> TRUE, st_error |-> FALSE]

\* export_content_json: the string returned, whether an exception leaves
\* the function, whether st.error was called
export_content_json(content_data) ==
    IF json_serializable(content_data)
    THEN [result |-> json_dumps(content_data, 0), raised |-> FALSE, st_error |-> FALSE]
    ELSE [result |-> <<"{","}">>, raised |-> FALSE, st_error |-> TRUE]

----------------------------------------------------------------------------
(* parse_agent_response, src/utils.py:158 *)

\* the keys of the sections dictionary, in insertion order
SectionKeys ==
    <<"summary", "content", "hashtags", "visual_concepts", "analytics", "trends">>

empty_sections ==
    [summary |-> <<>>, content |-> <<>>, hashtags |-> <<>>,
     visual_concepts |-> <<>>, analytics |-> <<>>, trends |-> <<>>]

\* the header lists of the if/elif chain, in its order
summary_headers == <<<<"U1F4CA"," ","c","o","n","t","e","n","t"," ","p","a","c","k","a","g","e">>, <<"c","o","n","t","e","n","t"," ","p","a","c","k","a","g","e"," ","s","u","m","m","a","r","y">>, <<"#","#"," ","U1F4CA">>>>
content_headers == <<<<"U1F4DD"," ","c","o","n","t","e","n","t">>, <<"#","#"," ","U1F4DD">>, <<"p","o","s","t"," ","c","o","n","t","e","n","t">>>>
hashtags_headers == <<<<"U1F3F7","UFE0F"," ","h","a","s","h","t","a","g">>, <<"h","a","s","h","t","a","g"," ","s","t","r","a","t","e","g","y">>, <<"#","#"," ","U1F3F7","UFE0F">>>>
visual_headers == <<<<"U1F3A8"," ","v","i","s","u","a","l">>, <<"v","i","s","u","a","l"," ","c","o","n","c","e","p","t">>, <<"#","#"," ","U1F3A8">>>>
analytics_headers == <<<<"U1F4C8"," ","p","e","r","f","o","r","m","a","n","c","e">>, <<"a","n","a","l","y","t","i","c","s">>, <<"i","n","s","i","g","h","t","s">>, <<"#","#"," ","U1F4C8">>>>
trends_headers == <<<<"U1F525"," ","t","r","e","n","d">>, <<"t","r","e","n","d","i","n","g"," ","e","l","e","m","e","n","t">>, <<"#","#"," ","U1F525">>>>

\* a match anchored at the start of the line
any_header_startswith(headers, line_lower) ==
    \E i \in DOMAIN headers : startswith(line_lower, headers[i])

\* any(header in line_lower for header in headers)
any_header_in(headers, line_lower) ==
    \E i \in DOMAIN headers : contains(line_lower, headers[i])

\* the chain with its branches in the opposite order
header_section_reversed(line_lower) ==
    IF any_header_in(trends_headers, line_lower) THEN "trends"
    ELSE IF any_header_in(analytics_headers, line_lower) THEN "analytics"
    ELSE IF any_header_in(visual_headers, line_lower) THEN "visual_concepts"
    ELSE IF any_header_in(hashtags_headers, line_lower) THEN "hashtags"
    ELSE IF any_header_in(content_headers, line_lower) THEN "content"
    ELSE IF any_header_in(summary_headers, line_lower) THEN "summary"
    ELSE "none"

\* the section the if/elif chain switches to, or "none" when it reaches else
header_section(line_lower) ==
    IF any_header_in(summary_headers, line_lower) THEN "summary"
    ELSE IF any_header_in(content_headers, line_lower) THEN "content"
    ELSE IF any_header_in(hashtags_headers, line_lower) THEN "hashtags"
    ELSE IF any_header_in(visual_headers, line_lower) THEN "visual_concepts"
    ELSE IF any_header_in(analytics_headers, line_lower) THEN "analytics"
    ELSE IF any_header_in(trends_headers, line_lower) THEN "trends"
    ELSE "none"

\* current_section before the first line
initial_section_content == "content"
initial_section == "summary"

\* a slip of the accumulation: = instead of +=
accumulate_overwrite(sections, current_section, line) ==
    [sections EXCEPT ![current_section] = line \o <<"\n">>]

\* sections[current_section] += line + "\n"
accumulate(sections, current_section, line) ==
    [sections EXCEPT ![current_section] = @ \o line \o <<"\n">>]

\* the else branch of the loop: whether the line is added to the section
is_accumulated(line, current_section) ==
    /\ (~startswith(line, <<"#","#">>) /\ ~startswith(line, <<"*","*">>)) \/ current_section = "content"
    /\ ~(current_section = "content" /\ startswith(line, <<"#","#">>))

\* the loop over the lines, from the given current_section and sections
RECURSIVE parse_lines(_, _, _)
parse_lines(lines, current_section, sections) ==
    IF lines = <<>> THEN sections
    ELSE LET line == strip(Head(lines))
             header == header_section(lower(line))
         IN  IF line = <<>>
             THEN parse_lines(Tail(lines), current_section, sections)
             ELSE IF header # "none"
             THEN parse_lines(Tail(lines), header, sections)
             ELSE IF is_accumulated(line, current_section)
             THEN parse_lines(Tail(lines), current_section,
                              accumulate(sections, current_section, line))
             ELSE parse_lines(Tail(lines), current_section, sections)

ShortLabelTokens == 3

\* a second pass that drops every bold label, whatever its length
is_content_line_any_length(line) ==
    /\ ~startswith(line, <<"#","#">>)
    /\ ~(startswith(line, <<"*","*">>) /\ endswith(line, <<"*","*">>))

\* the second pass over the content section: whether a line is kept
is_content_line(line) ==
    /\ ~startswith(line, <<"#","#">>)
    /\ ~(startswith(line, <<"*","*">>) /\ endswith(line, <<"*","*">>)
         /\ split_count(line) <= ShortLabelTokens)

strip_each(lines) == [i \in 1..Len(lines) |-> strip(lines[i])]

\* a slip of the clean-up: the sections are not stripped
clean_section_unstripped(key, text) ==
    IF key = "content" /\ strip(text) # <<>>
    THEN strip(join(<<"\n">>, SelectSeq(strip_each(split(strip(text), "\n")), is_content_line)))
    ELSE text

\* the clean-up of one section
clean_section(key, text) ==
    IF key = "content" /\ strip(text) # <<>>
    THEN strip(join(<<"\n">>, SelectSeq(strip_each(split(strip(text), "\n")), is_content_line)))
    ELSE strip(text)

parse_agent_response(response) ==
    LET sections == parse_lines(split(response, "\n"), initial_section, empty_sections)
    IN  [key \in DOMAIN sections |-> clean_section(key, sections[key])]

----------------------------------------------------------------------------
(* Inputs of the utility calls *)

MaxShortLen == 4

SeqsUpTo(A, n) == UNION {[1..k -> A] : k \in 0..n}


\* short topics over a letter and two kinds of whitespace
TopicAlphabet == {"a", " ", "\t"}
ShortTopics == SeqsUpTo(TopicAlphabet, MaxShortLen)

\* topics around the upper length limit, with and without surrounding space
LongTopics ==
    {Repeat(" ", l) \o Repeat("a", n) \o Repeat(" ", r) :
        n \in (MaxTopicLen - 1)..(MaxTopicLen + 1), l \in 0..1, r \in 0..1}

Topics == ShortTopics \cup LongTopics

\* the seven platforms of the form and one the table does not know
Snapchat == <<"S","n","a","p","c","h","a","t">>
PlatformInputs == Range(SUPPORTED_PLATFORMS) \cup {Snapchat}
ToneInputs == Range(TONE_OPTIONS) \cup {"Sarcastic"}

\* content lengths around the limits of the table and of the default
ContentLengths == {0, 1, 80, 81, 150, 151, 160, 161, 280, 281, 300, 2000, 2001, 2200, 2201}
ContentInputs == {Repeat("a", n) : n \in ContentLengths}
\* limit names: some in every mapping, some in a few, one in none
ContentTypeInputs == {post, bio, hashtags, caption, <<"s","t","o","r","y">>}

CleanAlphabet == {"a", "B", " ", "\t", "U20AC", "!"}
CleanInputs == SeqsUpTo(CleanAlphabet, MaxShortLen)

\* texts handed to format_hashtags: pieces put side by side (tags of one and
\* of more characters, tags with letters outside ASCII, a bare "#", words and
\* punctuation), and the text of the example
MaxPieces == 3
HashtagPieces ==
    { <<"#","a","b">>, <<"#","a">>, <<"#">>, <<" ">>, <<"!">>, <<"#","U00E9","b","_","1">>, <<"#","U00E9","U0663">>, <<"G","o">> }
HashtagExample == <<"c","h","e","c","k"," ","#","G","o","!"," ","a","n","d"," ","#","1"," ","a","n","d"," ","#","a","b">>
HashtagInputs ==
    {concat(ps) : ps \in SeqsUpTo(HashtagPieces, MaxPieces)} \cup {HashtagExample}

\* arguments of create_download_filename: short topics over characters
\* the two patterns treat differently, topics around the slice of 30
\* characters, platforms with and without slashes, file types, and readings
\* of the clock with one- and two-digit fields
FilenameAlphabet == {"a", "-", " ", "/", "U00E9", "!"}
FilenameTopics ==
    SeqsUpTo(FilenameAlphabet, MaxShortLen)
    \cup { Repeat("a", n) : n \in 29..31 }
    \cup { Repeat("a", 29) \o <<" ","b">>, Repeat("a", 28) \o <<"-"," ","-","b">>,
           <<"n","e","w"," "," ","s","h","o","e","s"," ","-","-"," ","f","o","r","/","k","i","d","s","!">>, concat([i \in 1..11 |-> <<"a","b","/"," ">>]) }
FilenamePlatforms == {TwitterX, Instagram, <<"a","/","B","/","c">>}
FileTypes == {<<"j","s","o","n">>, <<"t","x","t">>, <<"a","/","b">>}
ClockReadings ==
    { [year |-> 2024, month |-> 1, day |-> 2, hour |-> 3, minute |-> 4, second |-> 5,
       microsecond |-> 0],
      [year |-> 2026, month |-> 11, day |-> 30, hour |-> 23, minute |-> 59, second |-> 59,
       microsecond |-> 1234] }

\* arguments of generate_content_id: topics with characters of one to four
\* bytes, a topic that fills more than one block of the digest, a timestamp
\* that is passed or left out
IdTopics ==
    { <<>>, <<"n","e","w"," ","s","h","o","e","s">>, <<"A","I"," ","U20AC"," ","t","i","p","s">>, <<"U00E9","U1F4DD">>, Repeat("a", 40),
      Repeat("a", 100) }
IdPlatforms == {TwitterX, General, Snapchat}
IdTimestamps == ClockReadings \cup {None}

\* content records handed to export_content_json: the content is a text
\* with characters json escapes, a text outside ASCII, an empty text, None or
\* an object; the nested options hold booleans and one more value
ExportTopics == { <<"a","b">>, <<"n","e","w"," ","s","h","o","e","s">>, <<"A","I"," ","U20AC"," ","t","i","p","s">>, <<"a","/","b">> }
ExportContents ==
    { Str(<<"S","a","y"," ","U0022","h","i","U0022","\n","n","o","w">>), Str(<<"U20AC"," ","\t"," ","U005C">>), Str(<<>>), NoneValue, Object }
ExportExtras == { Str(<<"M","e","d","i","u","m">>), NoneValue, Object }
ExportRecords ==
    { Dict(<< <<<<"t","o","p","i","c">>, Str(topic)>>,
              <<<<"c","o","n","t","e","n","t">>, content>>,
              <<<<"o","p","t","i","o","n","s">>, Dict(<< <<<<"i","n","c","l","u","d","e","_","h","a","s","h","t","a","g","s">>, Bool(flag)>>,
                                   <<<<"c","o","n","t","e","n","t","_","l","e","n","g","t","h">>, extra>> >>)>> >>) :
        topic \in ExportTopics, content \in ExportContents,
        flag \in BOOLEAN, extra \in ExportExtras }
    \cup { Dict(<<>>) }

\* lines for the rules about triggers and labels: triggers in the middle of
\* a sentence and in capitals, a line with triggers of two sections, text,
\* bold labels of several shapes, a markdown header and a section header
MaxTriggerLines == 3
TriggerLines ==
    { <<"S","e","e"," ","t","h","e"," ","P","o","s","t"," ","C","o","n","t","e","n","t"," ","b","e","l","o","w">>, <<"H","a","s","h","t","a","g"," ","s","t","r","a","t","e","g","y"," ","f","o","r"," ","p","o","s","t"," ","c","o","n","t","e","n","t">>,
      <<"A","n","a","l","y","t","i","c","s"," ","a","n","d"," ","t","r","e","n","d","i","n","g"," ","e","l","e","m","e","n","t","s">>, <<"O","U","R"," ","V","I","S","U","A","L"," ","C","O","N","C","E","P","T">>, <<"H","e","l","l","o"," ","w","o","r","l","d">>,
      <<"*","*","T","i","p",":","*","*"," ","p","o","s","t"," ","i","n"," ","t","h","e"," ","m","o","r","n","i","n","g">>, <<"*","*","N","o","t","e","*","*">>, <<"*","*","o","n","e"," ","t","w","o"," ","t","h","r","e","e"," ","f","o","u","r","*","*">>,
      <<"#","#"," ","T","i","t","l","e">>, <<"#","#"," ","U1F4DD"," ","C","o","n","t","e","n","t">> }

MaxLines == 3
MaxCoreLines == 5

\* lines an agent response is made of: headers of several sections, plain
\* text, bold labels, markdown headers, triggers inside a sentence, and
\* empty and padded lines
ResponseLines ==
    { <<"#","#"," ","U1F4DD"," ","C","o","n","t","e","n","t">>,
      <<"#","#"," ","U1F3F7","UFE0F"," ","H","a","s","h","t","a","g"," ","S","t","r","a","t","e","g","y">>,
      <<"H","e","l","l","o"," ","w","o","r","l","d">>,
      <<>>,
      <<" "," ","p","a","d","d","e","d"," ","l","i","n","e"," ","\t">>,
      <<"*","*","T","i","p",":","*","*"," ","p","o","s","t"," ","i","n"," ","t","h","e"," ","m","o","r","n","i","n","g">>,
      <<"*","*","N","o","t","e","*","*">>,
      <<"*","*","o","n","e"," ","t","w","o"," ","t","h","r","e","e"," ","f","o","u","r","*","*">>,
      <<"#","#"," ","T","i","t","l","e">>,
      <<"S","e","e"," ","t","h","e"," ","P","o","s","t"," ","C","o","n","t","e","n","t"," ","b","e","l","o","w">>,
      <<"H","a","s","h","t","a","g"," ","s","t","r","a","t","e","g","y"," ","f","o","r"," ","p","o","s","t"," ","c","o","n","t","e","n","t">>,
      <<"A","n","a","l","y","t","i","c","s"," ","a","n","d"," ","t","r","e","n","d","i","n","g"," ","e","l","e","m","e","n","t","s">> }

\* a small core of lines, for longer responses
CoreLines ==
    { <<"#","#"," ","U1F4DD"," ","C","o","n","t","e","n","t">>, <<"#","#"," ","U1F3F7","UFE0F"," ","H","a","s","h","t","a","g"," ","S","t","r","a","t","e","g","y">>, <<"#","#"," ","U1F4CA"," ","C","o","n","t","e","n","t"," ","P","a","c","k","a","g","e"," ","S","u","m","m","a","r","y">>,
      <<"H","e","l","l","o"," ","w","o","r","l","d">>, <<"#","F","u","n"," ","#","C","o","o","l">> }

\* responses: up to MaxLines lines of ResponseLines, or more than MaxLines
\* and up to MaxCoreLines lines of CoreLines, joined by newlines
ResponseLineSeqs(n) ==
    IF n <= MaxLines THEN [1..n -> ResponseLines] ELSE [1..n -> CoreLines]

----------------------------------------------------------------------------
(* State machine *)

Init ==
    /\ generated_content = <<>>
    /\ current_content = None
    /\ show_history = FALSE
    /\ now_calls = 0
    /\ last = [op |-> "none"]
    /\ call = [fn |-> "none"]
    /\ ret = <<>>

CallValidateInput ==
    /\ call.fn = "none"
    /\ \E topic \in Topics, platform \in PlatformInputs, tone \in ToneInputs :
        /\ call' = [fn |-> "validate_input", topic |-> topic,
                    platform |-> platform, tone |-> tone]
        /\ ret' = validate_input(topic, platform, tone)
        /\ UNCHANGED sessionVars

CallCleanText ==
    /\ call.fn = "none"
    /\ \E text \in CleanInputs :
        /\ call' = [fn |-> "clean_text", text |-> text]
        /\ ret' = clean_text(text)
        /\ UNCHANGED sessionVars

CallParseAgentResponse ==
    /\ call.fn = "none"
    /\ \E n \in 0..MaxCoreLines : \E ls \in ResponseLineSeqs(n) :
        /\ call' = [fn |-> "parse_agent_response", response |-> join(<<"\n">>, ls)]
        /\ ret' = parse_agent_response(call'.response)
        /\ UNCHANGED sessionVars

\* get_platform_limits can be called at any time, before or after other calls
CallGetPlatformLimits ==
    \E platform \in PlatformInputs :
        /\ call' = [fn |-> "get_platform_limits", platform |-> platform]
        /\ ret' = get_platform_limits(platform)
        /\ UNCHANGED sessionVars

CallValidateContentLength ==
    /\ call.fn = "none"
    /\ \E content \in ContentInputs, platform \in PlatformInputs,
          content_type \in ContentTypeInputs :
        /\ call' = [fn |-> "validate_content_length", content |-> content,
                    platform |-> platform, content_type |-> content_type]
        /\ ret' = validate_content_length(content, platform, content_type)
        /\ UNCHANGED sessionVars

CallFormatHashtags ==
    /\ call.fn = "none"
    /\ \E text \in HashtagInputs : \E result \in format_hashtags(text) :
        /\ call' = [fn |-> "format_hashtags", hashtags |-> text]
        /\ ret' = result
        /\ UNCHANGED sessionVars

CallCreateDownloadFilename ==
    /\ call.fn = "none"
    /\ \E topic \in FilenameTopics, platform \in FilenamePlatforms,
          file_type \in FileTypes, now \in ClockReadings :
        /\ call' = [fn |-> "create_download_filename", topic |-> topic,
                    platform |-> platform, file_type |-> file_type]
        /\ ret' = create_download_filename(topic, platform, file_type, now)
        /\ UNCHANGED sessionVars

CallGenerateContentId ==
    /\ call.fn = "none"
    /\ \E topic \in IdTopics, platform \in IdPlatforms, timestamp \in IdTimestamps,
          now \in ClockReadings :
        /\ call' = [fn |-> "generate_content_id", topic |-> topic,
                    platform |-> platform, timestamp |-> timestamp, calls |-> 1,
                    first |-> <<>>]
        /\ ret' = generate_content_id(topic, platform, timestamp, now)
        /\ UNCHANGED sessionVars

\* a second call with the arguments of the first, at a later time
CallGenerateContentIdAgain ==
    /\ call.fn = "generate_content_id"
    /\ call.calls = 1
    /\ \E now \in ClockReadings :
        /\ call' = [call EXCEPT !.calls = 2, !.first = ret]
        /\ ret' = generate_content_id(call.topic, call.platform, call.timestamp, now)
        /\ UNCHANGED sessionVars

CallExportContentJson ==
    /\ call.fn = "none"
    /\ \E content_data \in ExportRecords :
        /\ call' = [fn |-> "export_content_json", content_data |-> content_data]
        /\ ret' = export_content_json(content_data)
        /\ UNCHANGED sessionVars

CallParseTriggerLines ==
    /\ call.fn = "none"
    /\ \E n \in 0..MaxTriggerLines : \E ls \in [1..n -> TriggerLines] :
        /\ call' = [fn |-> "parse_agent_response", response |-> join(<<"\n">>, ls)]
        /\ ret' = parse_agent_response(call'.response)
        /\ UNCHANGED sessionVars

\* process_content_generation looks up the limits of the platform it has
\* just validated, src/app.py:371 and src/app.py:385
CallLimitsOfValidated ==
    /\ call.fn = "validate_input"
    /\ ret[1]
    /\ call' = [fn |-> "get_platform_limits", platform |-> call.platform,
                after |-> "validate_input"]
    /\ ret' = get_platform_limits(call.platform)
    /\ UNCHANGED sessionVars

SpecLimits == Init /\ [][CallGetPlatformLimits \/ CallValidateContentLength]_vars
SpecParse == Init /\ [][CallParseAgentResponse]_vars
SpecTriggers == Init /\ [][CallParseTriggerLines]_vars
SpecValidate == Init /\ [][CallValidateInput]_vars
SpecPlatform == Init /\ [][CallValidateInput \/ CallLimitsOfValidated]_vars
SpecClean == Init /\ [][CallCleanText]_vars
SpecHashtags == Init /\ [][CallFormatHashtags]_vars
SpecExport == Init /\ [][CallExportContentJson]_vars
SpecFilename == Init /\ [][CallCreateDownloadFilename]_vars
SpecContentId == Init /\ [][CallGenerateContentId \/ CallGenerateContentIdAgain]_vars

----------------------------------------------------------------------------
(* The session handlers, src/app.py *)

\* the n-th reading of the clock in a session: readings are half a second
\* apart, so a later reading is a later time
datetime_now(n) ==
    [year |-> 2026, month |-> 11, day |-> 5, hour |-> 4, minute |-> 21,
     second |-> n \div 2, microsecond |-> (n % 2) * 500000]

\* what the agent collaborator does with one request: the manager is
\* missing, get_coordinator raises or returns nothing, run raises, or run
\* returns a text
AgentOutcomes ==
    {"no_manager", "get_coordinator_raises", "no_coordinator", "run_raises", "ok"}

\* generate_content without the try/except of src/app.py:480-496: what
\* get_coordinator or run raises leaves the function
generate_content_unguarded(topic, platform, tone, additional_context, options, outcome, response, now) ==
    IF outcome = "no_manager"
    THEN [success |-> FALSE, raised |-> FALSE, error |-> "Agent manager not initialized"]
    ELSE IF outcome \in {"get_coordinator_raises", "run_raises"}
    THEN [success |-> FALSE, raised |-> TRUE, error |-> "str(e)"]
    ELSE IF outcome = "no_coordinator"
    THEN [success |-> FALSE, raised |-> FALSE, error |-> "Coordinator agent not available"]
    ELSE [success |-> TRUE, raised |-> FALSE, content |-> response, timestamp |-> isoformat(datetime_now(now))]

\* generate_content, src/app.py:432; now is the number of clock readings
\* taken before the call.  raised tells whether an exception leaves the
\* function: building the prompt raises nothing, and the calls of the agent
\* collaborator stand inside try/except Exception.
generate_content(topic, platform, tone, additional_context, options, outcome, response, now) ==
    IF outcome = "no_manager"
    THEN [success |-> FALSE, raised |-> FALSE, error |-> "Agent manager not initialized"]
    ELSE IF outcome = "get_coordinator_raises"
    THEN [success |-> FALSE, raised |-> FALSE, error |-> "str(e)"]
    ELSE IF outcome = "no_coordinator"
    THEN [success |-> FALSE, raised |-> FALSE, error |-> "Coordinator agent not available"]
    ELSE IF outcome = "run_raises"
    THEN [success |-> FALSE, raised |-> FALSE, error |-> "str(e)"]
    ELSE [success |-> TRUE, raised |-> FALSE, content |-> response, timestamp |-> isoformat(datetime_now(now))]

\* the form's advanced options, at their defaults
FormOptions ==
    [include_hashtags |-> TRUE, include_visuals |-> TRUE,
     include_analytics |-> TRUE, content_length |-> "Medium"]

MaxGenerations == 2
HistoryShown == 5

\* topics typed into the form: empty, too short, clean, made of characters
\* clean_text deletes, and padded with a deleted character inside
SessionTopics == { <<>>, <<"a","b">>, <<"n","e","w"," ","s","h","o","e","s">>, <<"U20AC","U20AC","U20AC">>, <<" "," ","A","I"," ","U20AC"," "," ","t","i","p","s"," ">> }
SessionPlatforms == {TwitterX, Snapchat}
SessionTones == {"Casual", "Sarcastic"}
SessionContexts == { <<" ","f","o","r"," ","U20AC"," ","k","i","d","s"," ">> }
AgentResponses == { <<"#","#"," ","U1F4DD"," ","C","o","n","t","e","n","t","\n","H","e","l","l","o"," ","w","o","r","l","d">> }

\* a list that takes the new record at the front
append_front(history, content_data) == <<content_data>> \o history

\* list.append, src/app.py:419
append(history, content_data) == Append(history, content_data)

\* a rejection that also drops the displayed record
RejectInput_clears_current(report) ==
    /\ last' = report
    /\ current_content' = None
    /\ UNCHANGED <<generated_content, show_history, now_calls>>

\* the return on a rejected input, src/app.py:372: nothing of the session
\* has been touched yet
RejectInput(report) ==
    /\ last' = report
    /\ UNCHANGED <<generated_content, current_content, show_history, now_calls>>

\* a failed generation that leaves the displayed record in place
FailGeneration_keeps_current(report) ==
    /\ last' = report
    /\ UNCHANGED <<generated_content, current_content, show_history, now_calls>>

\* a generation that passed validation and failed: current_content was
\* cleared at src/app.py:381 before the agent call, and neither return False
\* (src/app.py:426, 430) writes the session again
FailGeneration(report) ==
    /\ current_content' = None
    /\ last' = report
    /\ UNCHANGED <<generated_content, show_history, now_calls>>

\* process_content_generation, src/app.py:364
ProcessContentGeneration ==
    \E topic \in SessionTopics, platform \in SessionPlatforms, tone \in SessionTones,
       additional_context \in SessionContexts, outcome \in AgentOutcomes,
       response \in AgentResponses :
      /\ UNCHANGED callVars
      /\ LET validation == validate_input(topic, platform, tone)
                 clean_topic == clean_text(topic)
                 clean_context == clean_text(additional_context)
                 result == generate_content(clean_topic, platform, tone, clean_context,
                                            FormOptions, outcome, response, now_calls)
                 content_data ==
                     [id |-> generate_content_id(clean_topic, platform, None,
                                                  datetime_now(now_calls + 1)),
                      topic |-> clean_topic,
                      platform |-> platform,
                      tone |-> tone,
                      additional_context |-> clean_context,
                      content |-> result.content,
                      timestamp |-> result.timestamp,
                      options |-> FormOptions]
             IN  IF ~validation[1]
                 THEN \* return False, src/app.py:372
                      RejectInput([op |-> "process_content_generation",
                                   validated_normalized |-> topic = clean_topic,
                                   validated |-> topic, normalized |-> clean_topic,
                                   platform |-> platform, tone |-> tone,
                                   is_valid |-> FALSE, message |-> validation[2],
                                   outcome |-> "not_called", success |-> FALSE,
                                   raised |-> FALSE,
                                   agent_called |-> FALSE, returned |-> FALSE])
                 ELSE IF result.raised
                 THEN \* except Exception, src/app.py:428
                      FailGeneration([op |-> "process_content_generation",
                                      validated_normalized |-> topic = clean_topic,
                                      validated |-> topic, normalized |-> clean_topic,
                                      platform |-> platform, tone |-> tone,
                                      is_valid |-> TRUE, message |-> result.error,
                                      outcome |-> outcome, success |-> FALSE,
                                      raised |-> TRUE,
                                      agent_called |-> outcome = "run_raises",
                                      returned |-> FALSE])
                 ELSE IF result.success
                 THEN /\ now_calls < 2 * MaxGenerations
                      /\ generated_content' = append(generated_content, content_data)
                      /\ current_content' = content_data
                      /\ now_calls' = now_calls + 2
                      /\ last' = [op |-> "process_content_generation",
                                  validated_normalized |-> topic = clean_topic,
                                  validated |-> topic, normalized |-> clean_topic,
                                  platform |-> platform, tone |-> tone,
                                  is_valid |-> TRUE, message |-> "",
                                  outcome |-> outcome, success |-> TRUE,
                                  raised |-> FALSE,
                                  agent_called |-> TRUE, returned |-> TRUE]
                      /\ UNCHANGED show_history
                 ELSE \* return False, src/app.py:426
                      FailGeneration([op |-> "process_content_generation",
                                      validated_normalized |-> topic = clean_topic,
                                      validated |-> topic, normalized |-> clean_topic,
                                      platform |-> platform, tone |-> tone,
                                      is_valid |-> TRUE, message |-> result.error,
                                      outcome |-> outcome, success |-> FALSE,
                                      raised |-> FALSE,
                                      agent_called |-> outcome = "run_raises",
                                      returned |-> FALSE])

\* the Regenerate button of render_content_display, src/app.py:659
Regenerate ==
    /\ current_content # None
    /\ current_content' = None
    /\ last' = [op |-> "regenerate"]
    /\ UNCHANGED <<generated_content, show_history, now_calls, callVars>>

\* the Show/Hide Generation History button of run, src/app.py:800
ToggleHistory ==
    /\ show_history' = ~show_history
    /\ last' = [op |-> "toggle_history"]
    /\ UNCHANGED <<generated_content, current_content, now_calls, callVars>>

\* a Clear History that leaves the displayed record in place
ClearHistory_keeps_current ==
    /\ show_history
    /\ generated_content # <<>>
    /\ generated_content' = <<>>
    /\ last' = [op |-> "clear_history"]
    /\ UNCHANGED <<current_content, show_history, now_calls, callVars>>

\* the Clear History button of render_history, src/app.py:678
ClearHistory ==
    /\ show_history
    /\ generated_content # <<>>
    /\ generated_content' = <<>>
    /\ current_content' = None
    /\ last' = [op |-> "clear_history"]
    /\ UNCHANGED <<show_history, now_calls, callVars>>

\* a View button of render_history, src/app.py:703: one of the last
\* HistoryShown records
View ==
    /\ show_history
    /\ \E i \in DOMAIN generated_content :
        /\ i > Len(generated_content) - HistoryShown
        /\ current_content' = generated_content[i]
    /\ last' = [op |-> "view"]
    /\ UNCHANGED <<generated_content, show_history, now_calls, callVars>>

Next ==
    \/ ProcessContentGeneration
    \/ Regenerate
    \/ ToggleHistory
    \/ ClearHistory
    \/ View

Spec == Init /\ [][Next]_vars

----------------------------------------------------------------------------
(* Claims *)

\* the enumerations of the data model (ContentRequest.platform, .tone)
PlatformEnum ==
    {<<"I","n","s","t","a","g","r","a","m">>, <<"T","w","i","t","t","e","r","/","X">>, <<"L","i","n","k","e","d","I","n">>, <<"F","a","c","e","b","o","o","k">>, <<"T","i","k","T","o","k">>, <<"Y","o","u","T","u","b","e">>, <<"G","e","n","e","r","a","l">>}
ToneEnum ==
    {"Professional", "Casual", "Inspiring", "Educational", "Humorous", "Urgent", "Friendly"}

\* C3: clean_text is idempotent: cleaning an already cleaned string changes
\* nothing, also when a disallowed character stood between whitespace or at
\* an end of the input.
C3_CleanTextIdempotent ==
    call.fn = "clean_text" => clean_text(ret) = ret

\* C4: the result of clean_text has no whitespace at either end, no run of
\* two or more whitespace characters and no character outside the allow-list.
C4_CleanTextNormalForm ==
    call.fn = "clean_text" =>
        /\ ret # <<>> => ~IsSpace(ret[1]) /\ ~IsSpace(ret[Len(ret)])
        /\ \A i \in 1..(Len(ret) - 1) : ~(IsSpace(ret[i]) /\ IsSpace(ret[i + 1]))
        /\ \A i \in 1..Len(ret) : IsAllowedChar(ret[i])

\* C5: every record of the session history has a stored topic of 3 to 500
\* characters and a platform and a tone of the enumerations.
C5_HistoryRecordsValid ==
    \A i \in DOMAIN generated_content :
        /\ Len(generated_content[i].topic) >= 3
        /\ Len(generated_content[i].topic) <= 500
        /\ generated_content[i].platform \in PlatformEnum
        /\ generated_content[i].tone \in ToneEnum

\* C6: a topic whose trimmed length is within [3,500], with a platform and a
\* tone of the enumerations, is accepted: validate_input returns (True, "").
C6_ValidInputAccepted ==
    ( /\ call.fn = "validate_input"
      /\ Len(strip(call.topic)) >= 3
      /\ Len(strip(call.topic)) <= 500
      /\ call.platform \in PlatformEnum
      /\ call.tone \in ToneEnum )
    => ret = <<TRUE, "">>

\* a topic of trimmed length exactly 500 inside surrounding whitespace was accepted
C6_Witness ==
    /\ call.fn = "validate_input"
    /\ Len(call.topic) > 500
    /\ Len(strip(call.topic)) = 500
    /\ ret = <<TRUE, "">>

\* C7: validate_input reports the first failing check only, in the order
\* empty topic, short topic, long topic, platform, tone, and every failure
\* is returned as (False, message).
C7_FirstFailureWins ==
    call.fn = "validate_input" =>
        LET n == Len(strip(call.topic))
            topic_ok == n >= 3 /\ n <= 500
        IN  /\ ret[1] \in BOOLEAN
            /\ n = 0 => ret = <<FALSE, "Topic cannot be empty">>
            /\ n \in 1..2 => ret = <<FALSE, "Topic must be at least 3 characters long">>
            /\ n > 500 => ret = <<FALSE, "Topic must be less than 500 characters">>
            /\ topic_ok /\ call.platform \notin PlatformEnum
                  => ret = <<FALSE, "Invalid platform selected">>
            /\ topic_ok /\ call.platform \in PlatformEnum /\ call.tone \notin ToneEnum
                  => ret = <<FALSE, "Invalid tone selected">>

\* a valid topic with an invalid platform and an invalid tone was rejected
\* for its platform
C7_Witness ==
    /\ call.fn = "validate_input"
    /\ Len(strip(call.topic)) >= 3
    /\ call.platform \notin PlatformEnum
    /\ call.tone \notin ToneEnum
    /\ ret = <<FALSE, "Invalid platform selected">>

\* the table of platform limits as the specification gives it
LimitTable ==
    (<<"I","n","s","t","a","g","r","a","m">> :> (<<"c","a","p","t","i","o","n">> :> 2200 @@ <<"b","i","o">> :> 150 @@ <<"h","a","s","h","t","a","g","s">> :> 30)) @@
    (<<"T","w","i","t","t","e","r","/","X">> :> (<<"p","o","s","t">> :> 280 @@ <<"b","i","o">> :> 160 @@ <<"h","a","s","h","t","a","g","s">> :> 2)) @@
    (<<"L","i","n","k","e","d","I","n">>  :> (<<"p","o","s","t">> :> 3000 @@ <<"h","e","a","d","l","i","n","e">> :> 220 @@ <<"h","a","s","h","t","a","g","s">> :> 5)) @@
    (<<"F","a","c","e","b","o","o","k">>  :> (<<"p","o","s","t">> :> 63206 @@ <<"b","i","o">> :> 101 @@ <<"h","a","s","h","t","a","g","s">> :> 30)) @@
    (<<"T","i","k","T","o","k">>    :> (<<"c","a","p","t","i","o","n">> :> 2200 @@ <<"b","i","o">> :> 80 @@ <<"h","a","s","h","t","a","g","s">> :> 5)) @@
    (<<"Y","o","u","T","u","b","e">>   :> (<<"d","e","s","c","r","i","p","t","i","o","n">> :> 5000 @@ <<"t","i","t","l","e">> :> 100 @@ <<"h","a","s","h","t","a","g","s">> :> 15)) @@
    (<<"G","e","n","e","r","a","l">>   :> (<<"p","o","s","t">> :> 2000 @@ <<"b","i","o">> :> 150 @@ <<"h","a","s","h","t","a","g","s">> :> 10))

ExpectedLimits(p) ==
    IF p \in PlatformEnum THEN LimitTable[p] ELSE LimitTable[<<"G","e","n","e","r","a","l">>]

\* C8: validate_content_length passes exactly when len(content) <= limit,
\* where limit is the entry of the platform's mapping for the content type,
\* or 2000 when the mapping has no such entry; the message reports
\* "length/limit" on both outcomes; 300 characters on a Twitter/X post fail
\* with a message naming 280.
C8_ContentLengthVerdict ==
    call.fn = "validate_content_length" =>
        LET mapping == ExpectedLimits(call.platform)
            limit == IF call.content_type \in DOMAIN mapping
                     THEN mapping[call.content_type] ELSE 2000
            n == Len(call.content)
        IN  /\ ret[1] = (n <= limit)
            /\ contains(ret[2], str_int(n) \o <<"/">> \o str_int(limit))
            /\ ( /\ call.content_type = <<"p","o","s","t">>
                 /\ call.platform \in {<<"I","n","s","t","a","g","r","a","m">>, <<"T","i","k","T","o","k">>, <<"Y","o","u","T","u","b","e">>} )
               => limit = 2000
            /\ (n = 300 /\ call.platform = <<"T","w","i","t","t","e","r","/","X">> /\ call.content_type = <<"p","o","s","t">>)
               => ret[1] = FALSE /\ contains(ret[2], <<"2","8","0">>)

\* a post of 2001 characters on Instagram, whose mapping has no "post"
\* entry, was rejected against the default of 2000
C8_Witness ==
    /\ call.fn = "validate_content_length"
    /\ call.platform = <<"I","n","s","t","a","g","r","a","m">>
    /\ call.content_type = <<"p","o","s","t">>
    /\ Len(call.content) = 2001
    /\ ret[1] = FALSE
    /\ contains(ret[2], <<"2","0","0","1","/","2","0","0","0">>)

\* C9: get_platform_limits returns the mapping of the table for each of the
\* seven platforms and the General mapping for any other platform, in every
\* state, whatever has been called before.
C9_PlatformLimitsTable ==
    /\ \A p \in PlatformInputs : get_platform_limits(p) = ExpectedLimits(p)
    /\ call.fn = "get_platform_limits" => ret = ExpectedLimits(call.platform)

\* an unknown platform was looked up and got the General mapping
C9_Witness ==
    /\ call.fn = "get_platform_limits"
    /\ call.platform \notin PlatformEnum
    /\ ret = (<<"p","o","s","t">> :> 2000 @@ <<"b","i","o">> :> 150 @@ <<"h","a","s","h","t","a","g","s">> :> 10)

\* the lines of a response, trimmed, and the lines of a section's text
TrimmedLines(response) == strip_each(split(response, "\n"))
FieldLines(text) == IF text = <<>> THEN <<>> ELSE split(text, "\n")

IsHeaderLine(line) == header_section(lower(line)) # "none"
\* a line that starts with neither of the markers "##" and "**"
IsPlainLine(line) == ~startswith(line, <<"#","#">>) /\ ~startswith(line, <<"*","*">>)

\* for each line: "header" for a header line, "empty" for an empty line,
\* and otherwise the section selected by the latest header line before it,
\* or summary when there is none
RECURSIVE LineSections(_, _)
LineSections(ls, latest) ==
    IF ls = <<>> THEN <<>>
    ELSE IF IsHeaderLine(Head(ls))
    THEN <<"header">> \o LineSections(Tail(ls), header_section(lower(Head(ls))))
    ELSE <<IF Head(ls) = <<>> THEN "empty" ELSE latest>> \o LineSections(Tail(ls), latest)

\* the text lines whose latest preceding header selects section k, in input order
RECURSIVE RoutedTo(_, _, _)
RoutedTo(ls, tags, k) ==
    IF ls = <<>> THEN <<>>
    ELSE (IF Head(tags) = k THEN <<Head(ls)>> ELSE <<>>)
         \o RoutedTo(Tail(ls), Tail(tags), k)

RECURSIVE IsSubseq(_, _)
IsSubseq(a, b) ==
    IF a = <<>> THEN TRUE
    ELSE IF b = <<>> THEN FALSE
    ELSE IF Head(a) = Head(b) THEN IsSubseq(Tail(a), Tail(b))
    ELSE IsSubseq(a, Tail(b))

\* C1: every line a section holds was routed to it by the latest header
\* before it (summary when there is none); the lines keep their input order
\* and are joined by single newlines, so the plain lines routed to a section
\* are all there, also when the section is entered a second time; the
\* content/hashtag example yields "Hello world" and "#Fun #Cool".
C1_RoutedByLatestHeader ==
    call.fn = "parse_agent_response" =>
        LET ls == TrimmedLines(call.response)
            tags == LineSections(ls, "summary")
        IN  /\ \A k \in Range(SectionKeys) :
                  LET got == FieldLines(ret[k])
                      routed == RoutedTo(ls, tags, k)
                  IN  /\ IsSubseq(got, routed)
                      /\ SelectSeq(got, IsPlainLine) = SelectSeq(routed, IsPlainLine)
            /\ call.response = <<"#","#"," ","U1F4DD"," ","C","o","n","t","e","n","t","\n","H","e","l","l","o"," ","w","o","r","l","d","\n","#","#"," ","U1F3F7","UFE0F"," ","H","a","s","h","t","a","g"," ","S","t","r","a","t","e","g","y","\n","#","F","u","n"," ","#","C","o","o","l">>
                  => ret.content = <<"H","e","l","l","o"," ","w","o","r","l","d">> /\ ret.hashtags = <<"#","F","u","n"," ","#","C","o","o","l">>

\* the summary section was left for content and entered again: the later
\* text was appended to the earlier text
C1_Witness ==
    /\ call.fn = "parse_agent_response"
    /\ call.response =
          <<"H","e","l","l","o"," ","w","o","r","l","d","\n","#","#"," ","U1F4DD"," ","C","o","n","t","e","n","t","\n","#","F","u","n"," ","#","C","o","o","l","\n","#","#"," ","U1F4CA"," ","C","o","n","t","e","n","t"," ","P","a","c","k","a","g","e"," ","S","u","m","m","a","r","y","\n","#","F","u","n"," ","#","C","o","o","l">>
    /\ ret.summary = <<"H","e","l","l","o"," ","w","o","r","l","d","\n","#","F","u","n"," ","#","C","o","o","l">>
    /\ ret.content = <<"#","F","u","n"," ","#","C","o","o","l">>

NoHeaderLine(response) ==
    LET ls == TrimmedLines(response)
    IN  \A i \in 1..Len(ls) : ~IsHeaderLine(ls[i])

OtherSectionsEmpty(sections) ==
    \A k \in Range(SectionKeys) \ {"summary"} : sections[k] = <<>>

\* C2 as stated: without any trigger phrase the summary holds every
\* non-empty line of the input, trimmed, in order, and the other five
\* sections are empty.
C2_HeaderlessAllInSummary ==
    (call.fn = "parse_agent_response" /\ NoHeaderLine(call.response)) =>
        /\ ret.summary = join(<<"\n">>, SelectSeq(TrimmedLines(call.response),
                                                 LAMBDA l : l # <<>>))
        /\ OtherSectionsEmpty(ret)

\* C2 amended: without any trigger phrase the summary holds every non-empty
\* trimmed line that starts with neither "##" nor "**", in order, and the
\* other five sections are empty.
C2_HeaderlessPlainInSummary ==
    (call.fn = "parse_agent_response" /\ NoHeaderLine(call.response)) =>
        /\ ret.summary = join(<<"\n">>, SelectSeq(TrimmedLines(call.response),
                                                 LAMBDA l : l # <<>> /\ IsPlainLine(l)))
        /\ OtherSectionsEmpty(ret)

\* a response without triggers, with a marked line and a plain line, was parsed
C2_Witness ==
    /\ call.fn = "parse_agent_response"
    /\ NoHeaderLine(call.response)
    /\ \E i \in 1..Len(TrimmedLines(call.response)) :
          LET l == TrimmedLines(call.response)[i] IN l # <<>> /\ ~IsPlainLine(l)
    /\ ret.summary # <<>>

\* C10: parse_agent_response returns the six fields, each without leading or
\* trailing whitespace, for every response; for the empty response all six
\* are empty.
C10_ParseTotal ==
    call.fn = "parse_agent_response" =>
        /\ DOMAIN ret = Range(SectionKeys)
        /\ \A k \in Range(SectionKeys) :
              ret[k] = <<>> \/ (~IsSpace(ret[k][1]) /\ ~IsSpace(ret[k][Len(ret[k])]))
        /\ call.response = <<>> => \A k \in Range(SectionKeys) : ret[k] = <<>>

\* a response that ends in whitespace produced a non-empty content section
C10_Witness ==
    /\ call.fn = "parse_agent_response"
    /\ call.response # <<>>
    /\ IsSpace(call.response[Len(call.response)])
    /\ ret.content # <<>>

\* C11: an exception raised by get_coordinator or by coordinator.run becomes
\* a result with success False and an error message, no exception leaves
\* generate_content, process_content_generation returns False, and the
\* history is left as it was.
C11_AgentExceptionContained ==
    [][ ( /\ last'.op = "process_content_generation"
          /\ last'.outcome \in {"get_coordinator_raises", "run_raises"} )
        => /\ ~last'.success
           /\ last'.message = "str(e)"
           /\ ~last'.raised
           /\ ~last'.returned
           /\ generated_content' = generated_content ]_vars

\* a request whose agent call raised, made when the history already holds a
\* record
C11_Witness ==
    /\ last.op = "process_content_generation"
    /\ last.outcome = "run_raises"
    /\ ~last.returned
    /\ Len(generated_content) = 1

\* C12: the history changes in two ways only: a successful generation adds
\* one record at the end and leaves the records before it in place, and
\* Clear History empties the list; a failed validation, a failed generation,
\* View, Regenerate and the history toggle leave the list as it was.
C12_HistoryAppendOrClear ==
    [][ /\ ( last'.op = "process_content_generation" /\ last'.returned )
            => /\ Len(generated_content') = Len(generated_content) + 1
               /\ SubSeq(generated_content', 1, Len(generated_content)) = generated_content
               /\ generated_content'[Len(generated_content')] = current_content'
        /\ last'.op = "clear_history" => generated_content' = <<>>
        /\ ( \/ last'.op \in {"view", "regenerate", "toggle_history"}
             \/ ( last'.op = "process_content_generation" /\ ~last'.returned ) )
            => generated_content' = generated_content ]_vars

\* a second successful generation, whose record differs from the first
C12_Witness ==
    /\ last.op = "process_content_generation"
    /\ last.returned
    /\ Len(generated_content) = 2
    /\ generated_content[1] # generated_content[2]

\* the cleaned tag of the "#" at position i of text: the ASCII letters,
\* digits and underscores of the word characters that follow it
TagAt(text, i) ==
    LET stop == CHOOSE k \in i..Len(text) :
                    /\ \A j \in (i+1)..k : IsWordChar(text[j])
                    /\ k = Len(text) \/ ~IsWordChar(text[k+1])
    IN  SelectSeq(SubSeq(text, i + 1, stop), IsAsciiWordChar)

\* C13: format_hashtags returns a collection without duplicates whose
\* elements are "#" followed by two or more ASCII letters, digits or
\* underscores: exactly the cleaned tags of two or more characters of the
\* "#word" occurrences of the text; the example text gives #Go and #ab, and
\* the empty text gives the empty collection.
C13_FormatHashtags ==
    call.fn = "format_hashtags" =>
        /\ \A i, j \in DOMAIN ret : i # j => ret[i] # ret[j]
        /\ \A i \in DOMAIN ret :
              /\ Len(ret[i]) >= 3
              /\ ret[i][1] = "#"
              /\ \A k \in 2..Len(ret[i]) : IsAsciiWordChar(ret[i][k])
        /\ {ret[i] : i \in DOMAIN ret} =
              { <<"#">> \o TagAt(call.hashtags, i) :
                  i \in {k \in DOMAIN call.hashtags :
                            /\ call.hashtags[k] = "#"
                            /\ Len(TagAt(call.hashtags, k)) >= 2} }
        /\ call.hashtags = HashtagExample => {ret[i] : i \in DOMAIN ret} = {<<"#","G","o">>, <<"#","a","b">>}
        /\ call.hashtags = <<>> => ret = <<>>

\* a text with the same tag twice and a tag that loses a letter outside
\* ASCII
C13_Witness ==
    /\ call.fn = "format_hashtags"
    /\ call.hashtags = <<"#","a","b","#","U00E9","b","_","1","#","a","b">>
    /\ Len(ret) = 2

\* YYYYMMDD_HHMMSS: eight digits, an underscore, six digits
IsTimestamp(t) ==
    /\ Len(t) = 15
    /\ t[9] = "_"
    /\ \A i \in (1..15) \ {9} : t[i] \in Digits

\* word characters and single hyphens, at most 30 characters
IsSlug(t) ==
    /\ Len(t) <= 30
    /\ \A i \in 1..Len(t) : IsWordChar(t[i]) \/ t[i] = "-"
    /\ \A i \in 1..(Len(t) - 1) : ~(t[i] = "-" /\ t[i+1] = "-")

\* C14: the file name is social_media_<slug>_<platform>_<timestamp>.<ext>
\* with a slug of at most 30 word characters and single hyphens, the
\* platform in lower case with "/" replaced by "_", a timestamp of the form
\* YYYYMMDD_HHMMSS, and no "/" anywhere when the file type has none.
C14_DownloadFilename ==
    call.fn = "create_download_filename" =>
        LET head == <<"s","o","c","i","a","l","_","m","e","d","i","a","_">>
            plat == [i \in 1..Len(call.platform) |->
                        IF call.platform[i] = "/" THEN "_" ELSE lower_char(call.platform[i])]
            tail_len == 1 + Len(plat) + 1 + 15 + 1 + Len(call.file_type)
            slug == SubSeq(ret, Len(head) + 1, Len(ret) - tail_len)
            rest == SubSeq(ret, Len(ret) - tail_len + 1, Len(ret))
        IN  /\ Len(ret) >= Len(head) + tail_len
            /\ SubSeq(ret, 1, Len(head)) = head
            /\ IsSlug(slug)
            /\ SubSeq(rest, 1, 1 + Len(plat) + 1) = <<"_">> \o plat \o <<"_">>
            /\ IsTimestamp(SubSeq(rest, Len(plat) + 3, Len(plat) + 17))
            /\ SubSeq(rest, Len(plat) + 18, Len(rest)) = <<".">> \o call.file_type
            /\ (\A i \in 1..Len(call.file_type) : call.file_type[i] # "/")
                   => \A i \in 1..Len(ret) : ret[i] # "/"

\* a topic longer than the slug with slashes in it, for a platform with a
\* slash
C14_Witness ==
    /\ call.fn = "create_download_filename"
    /\ Len(call.topic) > 30
    /\ \E i \in 1..Len(call.topic) : call.topic[i] = "/"
    /\ call.platform = TwitterX
    /\ call.file_type = <<"j","s","o","n">>
    /\ SubSeq(ret, 1, 44) = <<"s","o","c","i","a","l","_","m","e","d","i","a","_","a","b","-","a","b","-","a","b","-","a","b","-","a","b","-","a","b","-","a","b","-","a","b","-","a","b","-","a","b","-","_">>

\* C15: generate_content_id returns 12 hexadecimal characters, and a second
\* call with the same topic, platform and timestamp returns what the first
\* call returned, whatever the clock shows.
C15_ContentIdDeterministic ==
    call.fn = "generate_content_id" =>
        /\ Len(ret) = 12
        /\ \A i \in 1..Len(ret) : ret[i] \in Digits \cup {"a", "b", "c", "d", "e", "f"}
        /\ (call.calls = 2 /\ call.timestamp # None) => ret = call.first

\* a second call with a timestamp, for a topic with characters outside
\* ASCII
C15_Witness ==
    /\ call.fn = "generate_content_id"
    /\ call.calls = 2
    /\ call.timestamp # None
    /\ call.topic = <<"A","I"," ","U20AC"," ","t","i","p","s">>
    /\ ret = call.first

\* C16: when a content record cannot be serialized, export_content_json
\* returns the text of the empty object and no exception leaves it.
C16_ExportFailureFallback ==
    ( /\ call.fn = "export_content_json"
      /\ ~json_serializable(call.content_data) )
    => /\ ~ret.raised
       /\ ret.result = <<"{","}">>

\* a record whose content is an object json cannot encode, inside an
\* otherwise serializable record
C16_Witness ==
    /\ call.fn = "export_content_json"
    /\ call.content_data.v # <<>>
    /\ call.content_data.v[2][2] = Object
    /\ json_serializable(call.content_data.v[3][2])
    /\ ret.st_error

\* a line that starts with "##", or that starts and ends with "**"
IsMarkedLabel(line) ==
    \/ startswith(line, <<"#","#">>)
    \/ (startswith(line, <<"*","*">>) /\ endswith(line, <<"*","*">>))

\* C17: outside the content section, the lines a section accumulates are
\* the non-trigger lines routed to it that neither start with "##" nor both
\* start and end with "**"; a line that starts with "**" and does not end
\* with "**" is accumulated.
C17_BoldPrefixedLineAccumulated ==
    call.fn = "parse_agent_response" =>
        LET ls == TrimmedLines(call.response)
            tags == LineSections(ls, "summary")
        IN  \A k \in Range(SectionKeys) \ {"content"} :
                FieldLines(ret[k])
                    = SelectSeq(RoutedTo(ls, tags, k), LAMBDA l : ~IsMarkedLabel(l))

\* the trigger substrings of the six sections, in priority order
TriggerPhrases ==
    << {<<"U1F4CA"," ","c","o","n","t","e","n","t"," ","p","a","c","k","a","g","e">>, <<"c","o","n","t","e","n","t"," ","p","a","c","k","a","g","e"," ","s","u","m","m","a","r","y">>, <<"#","#"," ","U1F4CA">>},
       {<<"U1F4DD"," ","c","o","n","t","e","n","t">>, <<"#","#"," ","U1F4DD">>, <<"p","o","s","t"," ","c","o","n","t","e","n","t">>},
       {<<"U1F3F7","UFE0F"," ","h","a","s","h","t","a","g">>, <<"h","a","s","h","t","a","g"," ","s","t","r","a","t","e","g","y">>, <<"#","#"," ","U1F3F7","UFE0F">>},
       {<<"U1F3A8"," ","v","i","s","u","a","l">>, <<"v","i","s","u","a","l"," ","c","o","n","c","e","p","t">>, <<"#","#"," ","U1F3A8">>},
       {<<"U1F4C8"," ","p","e","r","f","o","r","m","a","n","c","e">>, <<"a","n","a","l","y","t","i","c","s">>, <<"i","n","s","i","g","h","t","s">>, <<"#","#"," ","U1F4C8">>},
       {<<"U1F525"," ","t","r","e","n","d">>, <<"t","r","e","n","d","i","n","g"," ","e","l","e","m","e","n","t">>, <<"#","#"," ","U1F525">>} >>

\* the sections that have a trigger substring somewhere in a lower-cased
\* line, as positions in the priority order
TriggeredIn(low) ==
    {k \in 1..6 : \E phrase \in TriggerPhrases[k] :
        \E i \in 0..(Len(low) - Len(phrase)) : SubSeq(low, i + 1, i + Len(phrase)) = phrase}

TriggeredSections(line) == TriggeredIn(lower(line))

\* a non-empty line without trigger that starts with neither marker
IsTextLine(line) ==
    line # <<>> /\ IsPlainLine(line) /\ TriggeredSections(line) = {}

RECURSIVE SeqRange(_)
SeqRange(q) == IF q = <<>> THEN {} ELSE {Head(q)} \cup SeqRange(Tail(q))

LinesOf(text) == SeqRange(FieldLines(text))

\* every text line that follows a line with triggers of exactly one section
\* is among the lines of that section
RECURSIVE SwitchedByOne(_, _)
SwitchedByOne(ls, sections) ==
    IF Len(ls) < 2 THEN TRUE
    ELSE /\ LET hit == TriggeredSections(ls[1])
            IN  (Cardinality(hit) = 1 /\ IsTextLine(ls[2]))
                => \A k \in hit : ls[2] \in LinesOf(sections[SectionKeys[k]])
         /\ SwitchedByOne(Tail(ls), sections)

\* C18: a line with a trigger substring anywhere in it, in any letter case,
\* switches the section (the text line after it lands in the section the
\* trigger names) and is in no section itself; every line of a section is a
\* trimmed line of the input in its original letter case.
C18_TriggerAnywhereSwitches ==
    call.fn = "parse_agent_response" =>
        /\ \A k \in Range(SectionKeys) : \A line \in LinesOf(ret[k]) :
              /\ TriggeredSections(line) = {}
              /\ line \in SeqRange(TrimmedLines(call.response))
        /\ SwitchedByOne(TrimmedLines(call.response), ret)

\* a sentence with a capitalised trigger in its middle was followed by a
\* text line
C18_Witness ==
    /\ call.fn = "parse_agent_response"
    /\ call.response = <<"S","e","e"," ","t","h","e"," ","P","o","s","t"," ","C","o","n","t","e","n","t"," ","b","e","l","o","w","\n","H","e","l","l","o"," ","w","o","r","l","d">>
    /\ ret.content = <<"H","e","l","l","o"," ","w","o","r","l","d">>
    /\ ret.summary = <<>>

\* every text line that follows a line with triggers of several sections is
\* among the lines of the first of them in priority order, and of no other
\* section unless the same text stands elsewhere in the input
RECURSIVE SwitchedToFirst(_, _, _)
SwitchedToFirst(ls, all, sections) ==
    IF Len(ls) < 2 THEN TRUE
    ELSE /\ LET hit == TriggeredSections(ls[1])
                first == CHOOSE k \in hit : \A j \in hit : k <= j
            IN  (Cardinality(hit) > 1 /\ IsTextLine(ls[2]))
                => /\ ls[2] \in LinesOf(sections[SectionKeys[first]])
                   /\ Cardinality({j \in 1..Len(all) : all[j] = ls[2]}) = 1
                         => \A k \in (1..6) \ {first} :
                               ls[2] \notin LinesOf(sections[SectionKeys[k]])
         /\ SwitchedToFirst(Tail(ls), all, sections)

\* C19: a line with trigger substrings of more than one section switches
\* to the first of them in the order summary, content, hashtags,
\* visual_concepts, analytics, trends: a line with "hashtag strategy" and
\* "post content" selects content, a line with "analytics" and "trending
\* element" selects analytics.
C19_FirstSectionInPriorityOrder ==
    call.fn = "parse_agent_response" =>
        /\ SwitchedToFirst(TrimmedLines(call.response), TrimmedLines(call.response), ret)
        /\ call.response = <<"H","a","s","h","t","a","g"," ","s","t","r","a","t","e","g","y"," ","f","o","r"," ","p","o","s","t"," ","c","o","n","t","e","n","t","\n","H","e","l","l","o"," ","w","o","r","l","d">>
              => ret.content = <<"H","e","l","l","o"," ","w","o","r","l","d">> /\ ret.hashtags = <<>>
        /\ call.response = <<"A","n","a","l","y","t","i","c","s"," ","a","n","d"," ","t","r","e","n","d","i","n","g"," ","e","l","e","m","e","n","t","s","\n","H","e","l","l","o"," ","w","o","r","l","d">>
              => ret.analytics = <<"H","e","l","l","o"," ","w","o","r","l","d">> /\ ret.trends = <<>>

\* the line with triggers of analytics and of trends was followed by text
C19_Witness ==
    /\ call.fn = "parse_agent_response"
    /\ call.response = <<"A","n","a","l","y","t","i","c","s"," ","a","n","d"," ","t","r","e","n","d","i","n","g"," ","e","l","e","m","e","n","t","s","\n","H","e","l","l","o"," ","w","o","r","l","d">>
    /\ ret.analytics = <<"H","e","l","l","o"," ","w","o","r","l","d">>

\* a short bolded label: starts and ends with "**" and has at most three
\* whitespace-separated tokens
IsShortBoldLabel(line) ==
    /\ startswith(line, <<"*","*">>)
    /\ endswith(line, <<"*","*">>)
    /\ split_count(line) <= 3

\* the non-empty, non-trigger lines seen while the current section is
\* content, in input order
RECURSIVE SeenInContent(_, _)
SeenInContent(ls, current) ==
    IF ls = <<>> THEN <<>>
    ELSE LET hit == TriggeredSections(Head(ls))
         IN  IF Head(ls) = <<>> THEN SeenInContent(Tail(ls), current)
             ELSE IF hit # {}
             THEN SeenInContent(Tail(ls), CHOOSE k \in hit : \A j \in hit : k <= j)
             ELSE (IF current = 2 THEN <<Head(ls)>> ELSE <<>>)
                  \o SeenInContent(Tail(ls), current)

\* C20: the content field holds exactly the non-trigger lines seen while
\* the current section was content that neither start with "##" nor are
\* short bolded labels, in order; longer bold lines and lines that start
\* with "**" without ending with it are kept.
C20_ContentFieldLines ==
    call.fn = "parse_agent_response" =>
        ret.content =
            join(<<"\n">>,
                 SelectSeq(SeenInContent(TrimmedLines(call.response), 1),
                           LAMBDA l : ~startswith(l, <<"#","#">>) /\ ~IsShortBoldLabel(l)))

\* under a content header: a long bold line and a short label, of which the
\* first was kept
C20_Witness ==
    /\ call.fn = "parse_agent_response"
    /\ call.response = <<"#","#"," ","U1F4DD"," ","C","o","n","t","e","n","t","\n","*","*","o","n","e"," ","t","w","o"," ","t","h","r","e","e"," ","f","o","u","r","*","*","\n","*","*","N","o","t","e","*","*">>
    /\ ret.content = <<"*","*","o","n","e"," ","t","w","o"," ","t","h","r","e","e"," ","f","o","u","r","*","*">>

\* C21: the string process_content_generation hands to the validator is the
\* normalized topic, and the agent is called only when the normalized topic
\* passes validation.
C21_NormalizedBeforeValidated ==
    last.op = "process_content_generation" =>
        /\ last.validated = last.normalized
        /\ last.agent_called
              => validate_input(last.normalized, last.platform, last.tone)[1]

\* C22: when validate_input rejects the input, process_content_generation
\* returns False, does not call the agent, and leaves generated_content and
\* current_content as they were.
C22_RejectedInputLeavesSession ==
    [][ (last'.op = "process_content_generation" /\ ~last'.is_valid)
          => /\ ~last'.returned
             /\ ~last'.agent_called
             /\ last'.outcome = "not_called"
             /\ generated_content' = generated_content
             /\ current_content' = current_content ]_vars

\* a rejected request while a record is displayed and the history is not empty
C22_Witness ==
    /\ last.op = "process_content_generation"
    /\ ~last.is_valid
    /\ current_content # None
    /\ generated_content # <<>>

\* C23: in every reachable session state current_content is None or one of
\* the records of generated_content, and right after a successful generation
\* it is the last record of generated_content.
C23_CurrentIsInHistory ==
    /\ \/ current_content = None
       \/ \E i \in DOMAIN generated_content : generated_content[i] = current_content
    /\ (last.op = "process_content_generation" /\ last.returned)
         => /\ generated_content # <<>>
            /\ current_content = generated_content[Len(generated_content)]

\* an older record of a history of two is displayed
C23_Witness ==
    /\ Len(generated_content) = 2
    /\ current_content = generated_content[1]
    /\ generated_content[1] # generated_content[2]

\* C24: a generation attempt that passes validation and then fails leaves
\* current_content None, whatever was displayed before, and leaves
\* generated_content unchanged.
C24_FailedGenerationClearsCurrent ==
    [][ (/\ last'.op = "process_content_generation"
         /\ last'.is_valid
         /\ ~last'.returned)
          => /\ current_content' = None
             /\ generated_content' = generated_content ]_vars

\* a failed agent call after a record had been generated and displayed
C24_Witness ==
    /\ last.op = "process_content_generation"
    /\ last.is_valid
    /\ last.agent_called
    /\ ~last.returned
    /\ generated_content # <<>>
    /\ current_content = None

\* C25: the platforms validate_input accepts, Config.SUPPORTED_PLATFORMS and
\* the keys of the limit table are the same seven names, so the limits looked
\* up for a platform that passed validation are that platform's own entry and,
\* except for General, not the General entry.
C25_ValidatedPlatformHasOwnLimits ==
    /\ Range(valid_platforms) = Range(SUPPORTED_PLATFORMS)
    /\ Range(SUPPORTED_PLATFORMS) = DOMAIN limits
    /\ DOMAIN limits = PlatformEnum
    /\ Cardinality(DOMAIN limits) = 7
    /\ (call.fn = "validate_input" /\ ret[1]) => call.platform \in DOMAIN limits
    /\ (call.fn = "get_platform_limits" /\ "after" \in DOMAIN call)
         => /\ call.platform \in DOMAIN limits
            /\ ret = limits[call.platform]
            /\ ret = LimitTable[call.platform]
            /\ call.platform # General => ret # limits[General]

\* the limits of Twitter/X looked up after Twitter/X passed validation
C25_Witness ==
    /\ call.fn = "get_platform_limits"
    /\ "after" \in DOMAIN call
    /\ call.platform = TwitterX
    /\ ret = limits[TwitterX]
    /\ ret # limits[General]

====
